---- MODULE Spec2Model ----
(***************************************************************************)
(* Model of the contact engine of prospector                               *)
(* (prospector-ui/apps/api/app/tools/contact_tools.py): the record         *)
(* normalizer, the CSV repository, query_contacts, get_contact_stats and   *)
(* vector_search_contacts.                                                 *)
(*                                                                         *)
(* Python values are tagged records; a Python str is a sequence of         *)
(* one-character strings, so that lower(), strip(), split(), int() and the *)
(* substring test are computed and not assumed.  A raw record and a        *)
(* contact are functions from key names to Python values; a key that is    *)
(* not in the DOMAIN is a key the dict does not have.                      *)
(***************************************************************************)
EXTENDS Integers, Sequences, FiniteSets, TLC

VARIABLES record, ret, store, pc, args, contacts, result, calls,
          agent_with_mcp, req, created, sse_url, cached_tools

\* the variables of the chat route (routes/chat.py) and of the tools it
\* loads (mcp/composio_client.py)
chatvars == <<agent_with_mcp, req, created, sse_url, cached_tools>>

vars == <<record, ret, store, pc, args, contacts, result, calls, chatvars>>

(***************************************************************************)
(* Python values                                                           *)
(***************************************************************************)
PyNone == [t |-> "None"]

PyStr(s) == [t |-> "str", s |-> s]

PyInt(n) == [t |-> "int", n |-> n]

PyBool(b) == [t |-> "bool", b |-> b]

PyList(l) == [t |-> "list", l |-> l]

\* bool(v)
Truthy(v) ==
  CASE v.t = "None" -> FALSE
    [] v.t = "str" -> v.s # <<>>
    [] v.t = "int" -> v.n # 0
    [] v.t = "bool" -> v.b
    [] v.t = "list" -> v.l # <<>>

\* a == b; bool is a subclass of int, so True == 1 and False == 0
AsNumber(v) == IF v.t = "bool" THEN (IF v.b THEN 1 ELSE 0) ELSE v.n

IsNumber(v) == v.t \in {"int", "bool"}

PyEq(a, b) ==
  IF IsNumber(a) /\ IsNumber(b) THEN AsNumber(a) = AsNumber(b) ELSE a = b

\* dict.get(key) and dict.get(key, default)
Get(d, key) == IF key \in DOMAIN d THEN d[key] ELSE PyNone

GetOr(d, key, default) == IF key \in DOMAIN d THEN d[key] ELSE default

\* a returned value, or a raised exception
Returned(v) == [ok |-> TRUE, val |-> v]

Raised(e) == [ok |-> FALSE, exc |-> e]

(***************************************************************************)
(* str methods                                                             *)
(***************************************************************************)
Upper == <<"A","B","C","D","E","F","G","H","I","J","K","L","M",
           "N","O","P","Q","R","S","T","U","V","W","X","Y","Z">>

LowerLetters == <<"a","b","c","d","e","f","g","h","i","j","k","l","m",
                  "n","o","p","q","r","s","t","u","v","w","x","y","z">>

LowerChar(c) ==
  IF \E i \in 1..Len(Upper) : Upper[i] = c
  THEN LowerLetters[CHOOSE i \in 1..Len(Upper) : Upper[i] = c]
  ELSE c

\* s.lower()
Lower(s) == [i \in 1..Len(s) |-> LowerChar(s[i])]

\* sub in s
Contains(s, sub) ==
  \E i \in 0..(Len(s) - Len(sub)) :
    \A j \in 1..Len(sub) : s[i + j] = sub[j]

IsSpace(c) == c = " "

\* s.strip()
Strip(s) ==
  IF \A i \in 1..Len(s) : IsSpace(s[i]) THEN <<>>
  ELSE LET first == CHOOSE i \in 1..Len(s) :
                      /\ ~IsSpace(s[i])
                      /\ \A j \in 1..(i - 1) : IsSpace(s[j])
           last == CHOOSE i \in 1..Len(s) :
                     /\ ~IsSpace(s[i])
                     /\ \A j \in (i + 1)..Len(s) : IsSpace(s[j])
       IN SubSeq(s, first, last)

\* s.split(sep) for a one-character separator
RECURSIVE Split(_, _)
Split(s, sep) ==
  IF \A i \in 1..Len(s) : s[i] # sep THEN <<s>>
  ELSE LET k == CHOOSE i \in 1..Len(s) :
                  /\ s[i] = sep
                  /\ \A j \in 1..(i - 1) : s[j] # sep
       IN <<SubSeq(s, 1, k - 1)>> \o Split(SubSeq(s, k + 1, Len(s)), sep)

\* sep.join(parts)
RECURSIVE Join(_, _)
Join(parts, sep) ==
  IF parts = <<>> THEN <<>>
  ELSE IF Len(parts) = 1 THEN parts[1]
  ELSE parts[1] \o sep \o Join(Tail(parts), sep)

Digits == <<"0","1","2","3","4","5","6","7","8","9">>

IsDigit(c) == \E i \in 1..10 : Digits[i] = c

DigitVal(c) == (CHOOSE i \in 1..10 : Digits[i] = c) - 1

RECURSIVE DigitsVal(_)
DigitsVal(s) ==
  IF s = <<>> THEN 0
  ELSE 10 * DigitsVal(SubSeq(s, 1, Len(s) - 1)) + DigitVal(s[Len(s)])

\* int(s) for a str: surrounding whitespace, an optional sign, decimal
\* digits; anything else raises ValueError
PyIntOfStr(s) ==
  LET b == Strip(s)
      signed == b # <<>> /\ b[1] \in {"+", "-"}
      d == IF signed THEN Tail(b) ELSE b
  IN IF d # <<>> /\ \A i \in 1..Len(d) : IsDigit(d[i])
     THEN Returned(IF signed /\ b[1] = "-" THEN 0 - DigitsVal(d) ELSE DigitsVal(d))
     ELSE Raised("ValueError")

\* str(n) for an int
RECURSIVE NatStr(_)
NatStr(n) == IF n < 10 THEN <<Digits[n + 1]>> ELSE NatStr(n \div 10) \o <<Digits[(n % 10) + 1]>>

IntStr(n) == IF n < 0 THEN <<"-">> \o NatStr(0 - n) ELSE NatStr(n)

(***************************************************************************)
(* String literals                                                         *)
(***************************************************************************)
s_true == <<"t","r","u","e">>

s_True == <<"T","r","u","e">>

s_false == <<"f","a","l","s","e">>

s_Interested == <<"I","n","t","e","r","e","s","t","e","d">>

s_Cold == <<"C","o","l","d">>

s_Verified == <<"V","e","r","i","f","i","e","d">>

s_verified == <<"v","e","r","i","f","i","e","d">>

s_NotCatchAll == <<"N","o","t"," ","C","a","t","c","h","-","a","l","l">>

s_UserManaged == <<"U","s","e","r"," ","M","a","n","a","g","e","d">>

s_email == <<"a","@","b",".","c","o">>

s_Ana == <<"A","n","a">>

s_Diaz == <<"D","i","a","z">>

s_CEO == <<"C","E","O">>

s_Analyst == <<"A","n","a","l","y","s","t">>

s_Manager == <<"M","a","n","a","g","e","r">>

s_Acme == <<"A","c","m","e">>

s_url == <<"i","n","/","a","n","a">>

s_phone == <<"5","5","5">>

s_Fintech == <<"F","i","n","t","e","c","h">>

s_Travel == <<"T","r","a","v","e","l">>

s_kw == <<"s","a","a","s",","," ","p","a","y","m","e","n","t">>

s_tech == <<"A","W","S"," ",",",","," ","S","t","r","i","p","e">>

s_US == <<"U","S">>

s_CO == <<"C","O">>

s_Bogota == <<"B","o","g","o","t","a">>

s_site == <<"a","c","m","e",".","c","o">>

s_id1 == <<"c","1">>

s_abc == <<"a","b","c">>

s_1comma000 == <<"1",",","0","0","0">>

s_pad42 == <<" ","4","2"," ">>

s_12dot5 == <<"1","2",".","5">>

s_minus3 == <<"-","3">>

s_42 == <<"4","2">>

REPLIED == <<"R","E","P","L","I","E","D">>

DEMOED == <<"D","E","M","O","E","D">>

BOUNCED == <<"B","O","U","N","C","E","D">>

OPENED == <<"O","P","E","N","E","D">>

SENT == <<"S","E","N","T">>

INTERESTED_NOT_CONTACTED == <<"I","N","T","E","R","E","S","T","E","D","_","N","O","T","_","C","O","N","T","A","C","T","E","D">>

NOT_CONTACTED == <<"N","O","T","_","C","O","N","T","A","C","T","E","D">>

INCOMPLETE == <<"I","N","C","O","M","P","L","E","T","E">>

Micro == <<"1","-","1","0"," ","(","M","i","c","r","o",")">>

Small == <<"1","1","-","5","0"," ","(","S","m","a","l","l",")">>

Medium == <<"5","1","-","2","0","0"," ","(","M","e","d","i","u","m",")">>

Large == <<"2","0","1","-","5","0","0"," ","(","L","a","r","g","e",")">>

Enterprise == <<"5","0","0","+"," ","(","E","n","t","e","r","p","r","i","s","e",")">>

(***************************************************************************)
(* Record Normalizer                                                       *)
(***************************************************************************)
\* record.get(key) in ['true', 'True', True]
IsTrueFlag(d, key) ==
  \E x \in {PyStr(s_true), PyStr(s_True), PyBool(TRUE)} : PyEq(Get(d, key), x)

\* determine_contact_state with the bounced test moved before the replied test
determine_contact_state_bounced_first(r) ==
  LET replied == IsTrueFlag(r, "Replied")
      demoed == IsTrueFlag(r, "Demoed")
      bounced == IsTrueFlag(r, "Email Bounced")
      opened == IsTrueFlag(r, "Email Open")
      sent == IsTrueFlag(r, "Email Sent")
      has_email == Truthy(Get(r, "Email"))
      stage == GetOr(r, "Stage", PyStr(<<>>))
  IN IF bounced THEN BOUNCED
     ELSE IF replied THEN REPLIED
     ELSE IF demoed THEN DEMOED
     ELSE IF opened THEN OPENED
     ELSE IF sent THEN SENT
     ELSE IF has_email
          THEN (IF PyEq(stage, PyStr(s_Interested))
                THEN INTERESTED_NOT_CONTACTED ELSE NOT_CONTACTED)
          ELSE INCOMPLETE

\* determine_contact_state with the stage test made before the email test
determine_contact_state_stage_first(r) ==
  LET replied == IsTrueFlag(r, "Replied")
      demoed == IsTrueFlag(r, "Demoed")
      bounced == IsTrueFlag(r, "Email Bounced")
      opened == IsTrueFlag(r, "Email Open")
      sent == IsTrueFlag(r, "Email Sent")
      has_email == Truthy(Get(r, "Email"))
      stage == GetOr(r, "Stage", PyStr(<<>>))
  IN IF replied THEN REPLIED
     ELSE IF demoed THEN DEMOED
     ELSE IF bounced THEN BOUNCED
     ELSE IF opened THEN OPENED
     ELSE IF sent THEN SENT
     ELSE IF PyEq(stage, PyStr(s_Interested)) THEN INTERESTED_NOT_CONTACTED
     ELSE IF has_email THEN NOT_CONTACTED
     ELSE INCOMPLETE

determine_contact_state(r) ==
  LET replied == IsTrueFlag(r, "Replied")
      demoed == IsTrueFlag(r, "Demoed")
      bounced == IsTrueFlag(r, "Email Bounced")
      opened == IsTrueFlag(r, "Email Open")
      sent == IsTrueFlag(r, "Email Sent")
      has_email == Truthy(Get(r, "Email"))
      stage == GetOr(r, "Stage", PyStr(<<>>))
  IN IF replied THEN REPLIED
     ELSE IF demoed THEN DEMOED
     ELSE IF bounced THEN BOUNCED
     ELSE IF opened THEN OPENED
     ELSE IF sent THEN SENT
     ELSE IF has_email
          THEN (IF PyEq(stage, PyStr(s_Interested))
                THEN INTERESTED_NOT_CONTACTED ELSE NOT_CONTACTED)
          ELSE INCOMPLETE

\* the points one "if ...: score += w" statement adds
Points(cond, w) == IF cond THEN w ELSE 0

\* the phone check with "and" in place of "or"
PhoneCheckEach(r) == Truthy(Get(r, "Mobile Phone")) /\ Truthy(Get(r, "Work Direct Phone"))

PhoneCheck(r) == Truthy(Get(r, "Mobile Phone")) \/ Truthy(Get(r, "Work Direct Phone"))

calculate_quality_score(r) ==
  LET s1 == Points(Truthy(Get(r, "First Name")), 5)
      s2 == s1 + Points(Truthy(Get(r, "Last Name")), 5)
      s3 == s2 + Points(Truthy(Get(r, "Email")), 10)
      s4 == s3 + Points(Truthy(Get(r, "Title")), 10)
      s5 == s4 + Points(Truthy(Get(r, "Company Name")), 10)
      s6 == s5 + Points(Truthy(Get(r, "Person Linkedin Url")), 10)
      s7 == s6 + Points(PhoneCheck(r), 10)
      s8 == s7 + Points(Truthy(Get(r, "Keywords")), 5)
      s9 == s8 + Points(Truthy(Get(r, "Technologies")), 5)
      s10 == s9 + Points(Truthy(Get(r, "Industry")), 5)
      s11 == s10 + Points(Truthy(Get(r, "# Employees")), 5)
      s12 == s11 + Points(PyEq(Get(r, "Email Status"), PyStr(s_Verified)), 10)
      s13 == s12 + Points(PyEq(Get(r, "Primary Email Catch-all Status"),
                               PyStr(s_NotCatchAll)), 10)
  IN s13

executive_keywords ==
  << <<"s","u","i","t","e">>, <<"f","o","u","n","d","e","r">>, <<"c","e","o">>,
     <<"c","t","o">>, <<"c","f","o">>, <<"c","o","o">>, <<"c","h","i","e","f">> >>

\* record.get(key, '').lower(): a value that is not a str has no lower()
LowerOf(r, key) ==
  LET v == GetOr(r, key, PyStr(<<>>))
  IN IF v.t = "str" THEN Returned(Lower(v.s)) ELSE Raised("AttributeError")

\* is_executive_contact comparing the cells as they are, without lower()
is_executive_contact_case_sensitive(r) ==
  LET seniority == GetOr(r, "Seniority", PyStr(<<>>))
      title == GetOr(r, "Title", PyStr(<<>>))
  IN IF seniority.t # "str" \/ title.t # "str" THEN Raised("AttributeError")
     ELSE Returned(\E i \in 1..Len(executive_keywords) :
                     \/ Contains(seniority.s, executive_keywords[i])
                     \/ Contains(title.s, executive_keywords[i]))

is_executive_contact(r) ==
  LET seniority == LowerOf(r, "Seniority")
      title == LowerOf(r, "Title")
  IN IF ~seniority.ok THEN seniority
     ELSE IF ~title.ok THEN title
     ELSE Returned(\E i \in 1..Len(executive_keywords) :
                     \/ Contains(seniority.val, executive_keywords[i])
                     \/ Contains(title.val, executive_keywords[i]))

\* [x.strip() for x in record.get(key, '').split(',') if x.strip()]
ParseArray(r, key) ==
  LET v == GetOr(r, key, PyStr(<<>>))
  IN IF v.t # "str" THEN Raised("AttributeError")
     ELSE LET parts == Split(v.s, ",")
              kept == SelectSeq(parts, LAMBDA x : Strip(x) # <<>>)
          IN Returned([i \in 1..Len(kept) |-> Strip(kept[i])])

\* int(record.get('# Employees', '0') or '0')
ParseEmployees(r) ==
  LET v == GetOr(r, "# Employees", PyStr(<<"0">>))
      a == IF Truthy(v) THEN v ELSE PyStr(<<"0">>)
  IN CASE a.t = "str" -> PyIntOfStr(a.s)
       [] a.t \in {"int", "bool"} -> Returned(AsNumber(a))
       [] OTHER -> Raised("TypeError")

\* size_bucket with the boundaries compared by < instead of <=
size_bucket_exclusive(company_size) ==
  IF company_size < 10 THEN Micro
  ELSE IF company_size < 50 THEN Small
  ELSE IF company_size < 200 THEN Medium
  ELSE IF company_size < 500 THEN Large
  ELSE Enterprise

size_bucket(company_size) ==
  IF company_size <= 10 THEN Micro
  ELSE IF company_size <= 50 THEN Small
  ELSE IF company_size <= 200 THEN Medium
  ELSE IF company_size <= 500 THEN Large
  ELSE Enterprise

transform_apollo_to_contact(r) ==
  LET quality_score == calculate_quality_score(r)
      is_executive == is_executive_contact(r)
      contact_state == determine_contact_state(r)
      technologies == ParseArray(r, "Technologies")
      keywords == ParseArray(r, "Keywords")
      company_size == ParseEmployees(r)
  IN IF ~is_executive.ok THEN is_executive
     ELSE IF ~technologies.ok THEN technologies
     ELSE IF ~keywords.ok THEN keywords
     ELSE IF ~company_size.ok THEN company_size
     ELSE Returned(
       [id |-> GetOr(r, "Apollo Contact Id", PyStr(<<>>)),
        firstName |-> Get(r, "First Name"),
        lastName |-> Get(r, "Last Name"),
        email |-> GetOr(r, "Email", PyStr(<<>>)),
        emailStatus |-> GetOr(r, "Email Status", PyStr(s_UserManaged)),
        title |-> Get(r, "Title"),
        seniority |-> Get(r, "Seniority"),
        linkedinUrl |-> Get(r, "Person Linkedin Url"),
        country |-> Get(r, "Country"),
        city |-> Get(r, "City"),
        companyName |-> Get(r, "Company Name"),
        companyWebsite |-> Get(r, "Website"),
        companySize |-> PyInt(company_size.val),
        companySizeBucket |-> PyStr(size_bucket(company_size.val)),
        industry |-> Get(r, "Industry"),
        technologies |-> PyList(technologies.val),
        keywords |-> PyList(keywords.val),
        stage |-> GetOr(r, "Stage", PyStr(s_Cold)),
        contactState |-> PyStr(contact_state),
        qualityScore |-> PyInt(quality_score),
        isExecutive |-> PyBool(is_executive.val)])

(***************************************************************************)
(* Raw records                                                             *)
(***************************************************************************)
MaxEmployees == 520

\* a row of the export with every column filled in
BaseRecord ==
  [c \in {"Apollo Contact Id", "First Name", "Last Name", "Email", "Email Status",
          "Title", "Seniority", "Person Linkedin Url", "Country", "City",
          "Company Name", "Website", "# Employees", "Industry", "Technologies",
          "Keywords", "Stage", "Mobile Phone"} |->
     CASE c = "Apollo Contact Id" -> PyStr(s_id1)
       [] c = "First Name" -> PyStr(s_Ana)
       [] c = "Last Name" -> PyStr(s_Diaz)
       [] c = "Email" -> PyStr(s_email)
       [] c = "Email Status" -> PyStr(s_Verified)
       [] c = "Title" -> PyStr(s_Analyst)
       [] c = "Seniority" -> PyStr(s_Manager)
       [] c = "Person Linkedin Url" -> PyStr(s_url)
       [] c = "Country" -> PyStr(s_US)
       [] c = "City" -> PyStr(s_Bogota)
       [] c = "Company Name" -> PyStr(s_Acme)
       [] c = "Website" -> PyStr(s_site)
       [] c = "# Employees" -> PyStr(s_42)
       [] c = "Industry" -> PyStr(s_Fintech)
       [] c = "Technologies" -> PyStr(s_tech)
       [] c = "Keywords" -> PyStr(s_kw)
       [] c = "Stage" -> PyStr(s_Cold)
       [] c = "Mobile Phone" -> PyStr(s_phone)]

\* the marker of a column the row does not have
Absent == [t |-> "absent"]

\* base with the columns of f set to the values of f (Absent removes one)
With(base, f) ==
  LET keys == (DOMAIN base \ {k \in DOMAIN f : f[k] = Absent})
                \cup {k \in DOMAIN f : f[k] # Absent}
  IN [k \in keys |-> IF k \in DOMAIN f THEN f[k] ELSE base[k]]

FlagColumns == {"Replied", "Demoed", "Email Bounced", "Email Open", "Email Sent"}

\* the cells of a flag column: no column, false, and the three forms of true
FlagCells == {Absent, PyStr(s_false), PyStr(s_true)}

TrueForms == {PyStr(s_True), PyBool(TRUE), PyStr(s_false)}

EmailValues == {Absent, PyStr(<<>>), PyStr(s_email)}

StageValues == {Absent, PyStr(s_Interested), PyStr(s_Cold)}

\* rows that differ in the interaction flags, Email and Stage
FlagRecordsOf(V) ==
  { With(BaseRecord,
         ("Replied" :> a) @@ ("Demoed" :> b) @@ ("Email Bounced" :> c) @@
         ("Email Open" :> d) @@ ("Email Sent" :> e) @@
         ("Email" :> m) @@ ("Stage" :> g)) :
      a \in V, b \in V, c \in V, d \in V, e \in V,
      m \in EmailValues, g \in StageValues }

FlagRecords == FlagRecordsOf(FlagCells) \cup FlagRecordsOf(TrueForms)

Filled(v) == {Absent, v}

Blank(v) == {PyStr(<<>>), v}

\* rows that differ in the columns the quality score looks at
ScoreRecords ==
  { With(BaseRecord,
         ("First Name" :> a) @@ ("Last Name" :> b) @@ ("Email" :> c) @@
         ("Title" :> d) @@ ("Company Name" :> e) @@
         ("Person Linkedin Url" :> f) @@ ("Mobile Phone" :> g) @@
         ("Work Direct Phone" :> h) @@ ("Keywords" :> i) @@
         ("Technologies" :> j) @@ ("Industry" :> k) @@ ("# Employees" :> l) @@
         ("Email Status" :> m) @@ ("Primary Email Catch-all Status" :> n)) :
      a \in Filled(PyStr(s_Ana)), b \in Blank(PyStr(s_Diaz)),
      c \in Blank(PyStr(s_email)), d \in Filled(PyStr(s_CEO)),
      e \in Blank(PyStr(s_Acme)), f \in Filled(PyStr(s_url)),
      g \in Blank(PyStr(s_phone)), h \in Filled(PyStr(s_phone)),
      i \in Blank(PyStr(s_kw)), j \in Blank(PyStr(s_tech)),
      k \in Filled(PyStr(s_Travel)), l \in Blank(PyStr(s_42)),
      m \in {PyStr(s_Verified), PyStr(s_verified)},
      n \in Filled(PyStr(s_NotCatchAll)) }

\* the '# Employees' cells: every count up to MaxEmployees, an empty cell,
\* a missing column, a short row (None) and cells int() does not parse
EmployeeValues ==
  {PyStr(NatStr(n)) : n \in 0..MaxEmployees} \cup
  {Absent, PyNone, PyStr(<<>>), PyStr(s_pad42), PyStr(s_minus3),
   PyStr(s_abc), PyStr(s_1comma000), PyStr(s_12dot5)}

EmployeeRecords == { With(BaseRecord, "# Employees" :> v) : v \in EmployeeValues }

\* rows that differ in Title and Seniority, and short rows whose trailing
\* cells csv.DictReader fills with None
RoleRecords ==
  { With(BaseRecord,
         ("Title" :> a) @@ ("Seniority" :> b) @@ ("Technologies" :> c) @@
         ("Keywords" :> d)) :
      a \in {Absent, PyNone, PyStr(<<>>), PyStr(s_CEO), PyStr(s_Analyst)},
      b \in {Absent, PyNone, PyStr(<<>>), PyStr(s_Manager)},
      c \in {Absent, PyNone, PyStr(s_tech)},
      d \in {Absent, PyNone, PyStr(s_kw)} }

RawRecords == FlagRecords \cup ScoreRecords \cup EmployeeRecords \cup RoleRecords

(***************************************************************************)
(* The normalizer applied to one raw record                                *)
(***************************************************************************)
NoRet == [fn |-> "none"]

Idle == "idle"

NoCall == [op |-> "none"]

NoValue == [ok |-> FALSE, exc |-> "unset"]

Procs == {1, 2}

MaxRequests == 3

\* the requests the chat route serves, and a request that has not arrived
Requests == 1..MaxRequests

NoRequest == [pc |-> Idle, kind |-> "none", agent |-> PyNone]

\* no tool is being called
ToolsIdle ==
  /\ pc = [p \in Procs |-> Idle]
  /\ args = [p \in Procs |-> NoCall]
  /\ contacts = [p \in Procs |-> NoValue]
  /\ result = [p \in Procs |-> NoValue]
  /\ calls = <<>>

\* the chat route after import: no agent, no cached tools, no request
ChatIdle ==
  /\ agent_with_mcp = PyNone
  /\ req = [r \in Requests |-> NoRequest]
  /\ created = 0
  /\ cached_tools = PyNone

SysIdle ==
  /\ ToolsIdle
  /\ ChatIdle
  /\ sse_url = PyNone

InitNorm ==
  /\ record \in RawRecords
  /\ ret = NoRet
  /\ store = [exists |-> FALSE, rows |-> <<>>]
  /\ SysIdle

Apply(fn, out) ==
  /\ ret = NoRet
  /\ ret' = [fn |-> fn, out |-> out]
  /\ UNCHANGED <<record, store, pc, args, contacts, result, calls, chatvars>>

DetermineContactState ==
  Apply("determine_contact_state", Returned(determine_contact_state(record)))

CalculateQualityScore ==
  Apply("calculate_quality_score", Returned(calculate_quality_score(record)))

IsExecutiveContact == Apply("is_executive_contact", is_executive_contact(record))

TransformApolloToContact ==
  Apply("transform_apollo_to_contact", transform_apollo_to_contact(record))

NextNorm ==
  \/ DetermineContactState
  \/ CalculateQualityScore
  \/ IsExecutiveContact
  \/ TransformApolloToContact

SpecNorm == InitNorm /\ [][NextNorm]_vars

(***************************************************************************)
(* Properties of the normalizer                                            *)
(***************************************************************************)
FlagOrder == <<"Replied", "Demoed", "Email Bounced", "Email Open", "Email Sent">>

FlagState == <<REPLIED, DEMOED, BOUNCED, OPENED, SENT>>

ContactStates ==
  {REPLIED, DEMOED, BOUNCED, OPENED, SENT, INTERESTED_NOT_CONTACTED,
   NOT_CONTACTED, INCOMPLETE}

\* the state a call of determine_contact_state returned, or the contactState
\* of the contact transform_apollo_to_contact returned
StateReturned ==
  \/ ret.fn = "determine_contact_state"
  \/ ret.fn = "transform_apollo_to_contact" /\ ret.out.ok

TheState ==
  IF ret.fn = "determine_contact_state" THEN ret.out.val
  ELSE ret.out.val.contactState.s

NoFlag(r) == \A i \in 1..5 : ~IsTrueFlag(r, FlagOrder[i])

\* C1: the contact state is the state of the first true interaction flag in
\* the order replied, demoed, bounced, opened, sent, whatever the later
\* flags, Email and Stage are.
C1_FirstTrueFlagWins ==
  StateReturned =>
    \A i \in 1..5 :
      (IsTrueFlag(record, FlagOrder[i]) /\ \A j \in 1..(i - 1) : ~IsTrueFlag(record, FlagOrder[j]))
        => TheState = FlagState[i]

C1_Witness ==
  /\ ret.fn = "determine_contact_state"
  /\ IsTrueFlag(record, "Replied")
  /\ IsTrueFlag(record, "Email Bounced")
  /\ ret.out.val = REPLIED

EmailGiven(r) == "Email" \in DOMAIN r /\ r["Email"] \notin {PyNone, PyStr(<<>>)}

StageIsInterested(r) == "Stage" \in DOMAIN r /\ r["Stage"] = PyStr(s_Interested)

\* C2: with no interaction flag true, a record without Email (missing or
\* empty) is INCOMPLETE whatever its Stage; with Email it is
\* INTERESTED_NOT_CONTACTED exactly when Stage is "Interested" and
\* NOT_CONTACTED otherwise; the state is always one of the 8 values.
C2_NoFlagStates ==
  StateReturned =>
    /\ TheState \in ContactStates
    /\ NoFlag(record) =>
         /\ ~EmailGiven(record) => TheState = INCOMPLETE
         /\ EmailGiven(record) /\ StageIsInterested(record)
              => TheState = INTERESTED_NOT_CONTACTED
         /\ EmailGiven(record) /\ ~StageIsInterested(record)
              => TheState = NOT_CONTACTED

C2_Witness ==
  /\ ret.fn = "determine_contact_state"
  /\ NoFlag(record)
  /\ "Email" \notin DOMAIN record
  /\ StageIsInterested(record)
  /\ ret.out.val = INCOMPLETE

\* the table of score weights: the columns of a check (one of them filled
\* satisfies it) and its weight
PresenceChecks ==
  << [cols |-> {"First Name"}, w |-> 5],
     [cols |-> {"Last Name"}, w |-> 5],
     [cols |-> {"Email"}, w |-> 10],
     [cols |-> {"Title"}, w |-> 10],
     [cols |-> {"Company Name"}, w |-> 10],
     [cols |-> {"Person Linkedin Url"}, w |-> 10],
     [cols |-> {"Mobile Phone", "Work Direct Phone"}, w |-> 10],
     [cols |-> {"Keywords"}, w |-> 5],
     [cols |-> {"Technologies"}, w |-> 5],
     [cols |-> {"Industry"}, w |-> 5],
     [cols |-> {"# Employees"}, w |-> 5] >>

ColumnFilled(r, c) == c \in DOMAIN r /\ r[c] \notin {PyNone, PyStr(<<>>)}

ColumnIs(r, c, s) == c \in DOMAIN r /\ r[c] = PyStr(s)

RECURSIVE PresenceSum(_, _)
PresenceSum(r, k) ==
  IF k = 0 THEN 0
  ELSE PresenceSum(r, k - 1) +
       (IF \E c \in PresenceChecks[k].cols : ColumnFilled(r, c)
        THEN PresenceChecks[k].w ELSE 0)

WeightSum(r) ==
  PresenceSum(r, Len(PresenceChecks))
    + (IF ColumnIs(r, "Email Status", s_Verified) THEN 10 ELSE 0)
    + (IF ColumnIs(r, "Primary Email Catch-all Status", s_NotCatchAll) THEN 10 ELSE 0)

ScoreReturned ==
  \/ ret.fn = "calculate_quality_score"
  \/ ret.fn = "transform_apollo_to_contact" /\ ret.out.ok

TheScore ==
  IF ret.fn = "calculate_quality_score" THEN ret.out.val
  ELSE ret.out.val.qualityScore.n

\* C3: the quality score is an integer in 0..100 equal to the sum of the
\* weights of the satisfied checks, the two phone columns counting once.
C3_ScoreIsWeightSum ==
  ScoreReturned => TheScore \in 0..100 /\ TheScore = WeightSum(record)

C3_Witness ==
  /\ ret.fn = "calculate_quality_score"
  /\ ColumnFilled(record, "Mobile Phone")
  /\ ColumnFilled(record, "Work Direct Phone")
  /\ ret.out.val = 100

\* the cell of '# Employees' is one int() parses
EmployeesParse(r) ==
  \/ ~ColumnFilled(r, "# Employees")
  \/ r["# Employees"].t = "str" /\ PyIntOfStr(r["# Employees"].s).ok

\* C4: transform_apollo_to_contact returns a contact for every raw record,
\* and a '# Employees' cell that is not an integer gives companySize 0.
C4_TransformTotal ==
  ret.fn = "transform_apollo_to_contact" =>
    /\ ret.out.ok
    /\ ~EmployeesParse(record) => ret.out.val.companySize = PyInt(0)

BucketRank(b) ==
  CASE b = Micro -> 1 [] b = Small -> 2 [] b = Medium -> 3 [] b = Large -> 4
    [] b = Enterprise -> 5

\* C5: for an employee count n >= 0 the bucket is Micro for n <= 10, Small
\* for 11..50, Medium for 51..200, Large for 201..500 and Enterprise from
\* 501 on, and no smaller count has a higher bucket.
C5_SizeBuckets ==
  (ret.fn = "transform_apollo_to_contact" /\ ret.out.ok /\ ret.out.val.companySize.n >= 0) =>
    LET n == ret.out.val.companySize.n
        b == ret.out.val.companySizeBucket.s
    IN /\ b \in {Micro, Small, Medium, Large, Enterprise}
       /\ (n <= 10) <=> (b = Micro)
       /\ (n \in 11..50) <=> (b = Small)
       /\ (n \in 51..200) <=> (b = Medium)
       /\ (n \in 201..500) <=> (b = Large)
       /\ (n >= 501) <=> (b = Enterprise)
       /\ \A m \in 0..n : BucketRank(size_bucket(m)) <= BucketRank(b)

C5_Witness ==
  /\ ret.fn = "transform_apollo_to_contact"
  /\ ret.out.ok
  /\ Get(record, "# Employees") = PyStr(<<"5","0","1">>)
  /\ ret.out.val.companySize = PyInt(501)
  /\ ret.out.val.companySizeBucket = PyStr(Enterprise)

(***************************************************************************)
(* More of Python: str(), ordering, slicing                                *)
(***************************************************************************)
s_contains == <<"c","o","n","t","a","i","n","s">>

s_equals == <<"e","q","u","a","l","s">>

s_gte == <<"g","t","e">>

s_Unknown == <<"U","n","k","n","o","w","n">>

s_UNKNOWN == <<"U","N","K","N","O","W","N">>

s_None == <<"N","o","n","e">>

s_False == <<"F","a","l","s","e">>

\* the printable ASCII characters in code-point order, from 32 (the grave
\* accent, 96, by name)
Ascii ==
  << " ", "!", "\"", "#", "$", "%", "&", "'", "(", ")", "*", "+",
     ",", "-", ".", "/", "0", "1", "2", "3", "4", "5", "6", "7",
     "8", "9", ":", ";", "<", "=", ">", "?", "@", "A", "B", "C",
     "D", "E", "F", "G", "H", "I", "J", "K", "L", "M", "N", "O",
     "P", "Q", "R", "S", "T", "U", "V", "W", "X", "Y", "Z", "[",
     "\\", "]", "^", "_", "GRAVE", "a", "b", "c", "d", "e", "f", "g",
     "h", "i", "j", "k", "l", "m", "n", "o", "p", "q", "r", "s",
     "t", "u", "v", "w", "x", "y", "z", "{", "|", "}", "~" >>

Ord(c) == 31 + (CHOOSE i \in 1..Len(Ascii) : Ascii[i] = c)

\* a >= b for two str: the first differing character decides, else the length
StrGe(a, b) ==
  LET n == IF Len(a) < Len(b) THEN Len(a) ELSE Len(b)
  IN IF \E i \in 1..n : a[i] # b[i]
     THEN LET k == CHOOSE i \in 1..n : a[i] # b[i] /\ \A j \in 1..(i - 1) : a[j] = b[j]
          IN Ord(a[k]) > Ord(b[k])
     ELSE Len(a) >= Len(b)

\* a >= b: defined between numbers and between str, TypeError otherwise
\* (lists of str are not compared by any caller the model draws)
PyGe(a, b) ==
  IF IsNumber(a) /\ IsNumber(b) THEN Returned(AsNumber(a) >= AsNumber(b))
  ELSE IF a.t = "str" /\ b.t = "str" THEN Returned(StrGe(a.s, b.s))
  ELSE Raised("TypeError")

\* repr(s) of a str inside the repr of a list (strings without quotes)
Quoted(s) == <<"'">> \o s \o <<"'">>

\* str(v)
PyStrOf(v) ==
  CASE v.t = "None" -> s_None
    [] v.t = "str" -> v.s
    [] v.t = "int" -> IntStr(v.n)
    [] v.t = "bool" -> (IF v.b THEN s_True ELSE s_False)
    [] v.t = "list" ->
         <<"[">> \o Join([i \in 1..Len(v.l) |-> Quoted(v.l[i])], <<",", " ">>) \o <<"]">>

\* seq[:n] for an int n: a negative n counts from the end
SliceTo(seq, n) ==
  IF n >= 0 THEN SubSeq(seq, 1, IF n < Len(seq) THEN n ELSE Len(seq))
  ELSE SubSeq(seq, 1, IF Len(seq) + n > 0 THEN Len(seq) + n ELSE 0)

(***************************************************************************)
(* Contact Repository                                                      *)
(***************************************************************************)
\* for row in reader: contacts.append(transform_apollo_to_contact(row))
RECURSIVE TransformRows(_)
TransformRows(rows) ==
  IF rows = <<>> THEN Returned(<<>>)
  ELSE LET c == transform_apollo_to_contact(rows[1])
       IN IF ~c.ok THEN c
          ELSE LET rest == TransformRows(Tail(rows))
               IN IF ~rest.ok THEN rest ELSE Returned(<<c.val>> \o rest.val)

\* load_contacts_from_csv without the CSV_PATH.exists() test: open() raises
load_contacts_from_csv_unchecked(st) ==
  IF ~st.exists THEN Raised("FileNotFoundError") ELSE TransformRows(st.rows)

load_contacts_from_csv(st) ==
  IF ~st.exists THEN Returned(<<>>) ELSE TransformRows(st.rows)

(***************************************************************************)
(* Filter Engine                                                           *)
(***************************************************************************)
\* the contacts of a list that was loaded or filtered without an exception
ContactsIn(cur) == IF cur.ok THEN {cur.val[i] : i \in 1..Len(cur.val)} ELSE {}

\* [c for c in cur if keep[c]], where evaluating the condition on a contact
\* with fails[c] raises exc
FilterPass(cur, keep, fails, exc) ==
  IF ~cur.ok THEN cur
  ELSE IF \E i \in 1..Len(cur.val) : fails[cur.val[i]] THEN Raised(exc)
  ELSE Returned(SelectSeq(cur.val, LAMBDA c : keep[c]))

\* a condition that raises on no contact
Never(cur) == [c \in ContactsIn(cur) |-> FALSE]

\* The names of dict keys (columns, contact fields, the field of a clause,
\* group_by) are atoms: the code only looks them up.  A clause is a dict
\* with the keys field (an atom), operator (a str) and value.

\* clause.get('field'), tested by "and field"
FieldGiven(clause) == "field" \in DOMAIN clause /\ clause.field # ""

\* field in c and c[field]
HasTruthy(c, field) == field \in DOMAIN c /\ Truthy(c[field])

\* c.get(field) and c.get(field, 0)
FieldOf(c, field) == IF field \in DOMAIN c THEN c[field] ELSE PyNone

FieldOr0(c, field) == IF field \in DOMAIN c THEN c[field] ELSE PyInt(0)

\* a clause of an operator the loop does not know empties the list
UnknownOperatorDropsAll(cur, clause) == IF cur.ok THEN Returned(<<>>) ELSE cur

\* a clause that matches no branch of the if/elif chain of lines 191-199
\* leaves contacts as it is
UnknownOperator(cur, clause) == cur

\* one pass of the where-clause loop (lines 187-199)
ApplyClause(cur, clause) ==
  LET operator == Get(clause, "operator")
      value == Get(clause, "value")
  IN IF PyEq(operator, PyStr(s_contains)) /\ FieldGiven(clause)
     THEN FilterPass(cur,
            [c \in ContactsIn(cur) |->
               /\ HasTruthy(c, clause.field)
               /\ value.t = "str"
               /\ Contains(Lower(PyStrOf(c[clause.field])), Lower(value.s))],
            [c \in ContactsIn(cur) |-> HasTruthy(c, clause.field) /\ value.t # "str"],
            "AttributeError")
     ELSE IF PyEq(operator, PyStr(s_equals)) /\ FieldGiven(clause)
     THEN FilterPass(cur,
            [c \in ContactsIn(cur) |-> PyEq(FieldOf(c, clause.field), value)],
            Never(cur), "none")
     ELSE IF PyEq(operator, PyStr(s_gte)) /\ FieldGiven(clause)
     THEN FilterPass(cur,
            [c \in ContactsIn(cur) |->
               LET ge == PyGe(FieldOr0(c, clause.field), value) IN ge.ok /\ ge.val],
            [c \in ContactsIn(cur) |-> ~PyGe(FieldOr0(c, clause.field), value).ok],
            "TypeError")
     ELSE UnknownOperator(cur, clause)

\* the clause loop stopping after its first clause
ApplyClausesFirstOnly(cur, clauses) ==
  IF clauses = <<>> THEN cur ELSE ApplyClause(cur, clauses[1])

\* for clause in where_clauses: ...
RECURSIVE ApplyClauses(_, _)
ApplyClauses(cur, clauses) ==
  IF clauses = <<>> THEN cur
  ELSE ApplyClauses(ApplyClause(cur, clauses[1]), Tail(clauses))

\* "if <filter given>: contacts = [c for c in contacts if ...]" (lines 169-182)
FilterIf(given, cur, keep, fails, exc) ==
  IF given THEN FilterPass(cur, keep, fails, exc) ELSE cur

\* lines 166-199: the contacts left after the typed filters and the clauses
FilterContacts(loaded, a) ==
  LET all == ContactsIn(loaded)
      never == Never(loaded)
      f1 == FilterIf(a.min_quality_score # PyNone, loaded,
              [c \in all |->
                 LET ge == PyGe(c.qualityScore, a.min_quality_score) IN ge.ok /\ ge.val],
              [c \in all |-> ~PyGe(c.qualityScore, a.min_quality_score).ok],
              "TypeError")
      f2 == FilterIf(a.is_executive # PyNone, f1,
              [c \in all |-> PyEq(c.isExecutive, a.is_executive)], never, "none")
      f3 == FilterIf(Truthy(a.country), f2,
              [c \in all |-> PyEq(FieldOf(c, "country"), a.country)], never, "none")
      f4 == FilterIf(Truthy(a.industry), f3,
              [c \in all |-> PyEq(FieldOf(c, "industry"), a.industry)], never, "none")
      f5 == FilterIf(Truthy(a.contact_state), f4,
              [c \in all |-> PyEq(FieldOf(c, "contactState"), a.contact_state)],
              never, "none")
  IN IF Truthy(a.where_clauses) THEN ApplyClauses(f5, a.where_clauses.l) ELSE f5

\* the minimal fields of a contact (lines 205-220)
Minimal(c) ==
  [id |-> c.id, firstName |-> FieldOf(c, "firstName"), lastName |-> FieldOf(c, "lastName"),
   email |-> c.email, title |-> FieldOf(c, "title"),
   companyName |-> FieldOf(c, "companyName"), industry |-> FieldOf(c, "industry"),
   country |-> FieldOf(c, "country"), qualityScore |-> c.qualityScore,
   isExecutive |-> c.isExecutive, contactState |-> c.contactState]

MinimalAll(cs) == [i \in 1..Len(cs) |-> Minimal(cs[i])]

\* lines 168-233, on the contacts that line 166 loaded
QueryFrom(loaded, a) ==
  LET matched == FilterContacts(loaded, a)
  IN IF ~matched.ok THEN matched
     ELSE LET limited == SliceTo(matched.val, a.limit.n)
              minimal == MinimalAll(limited)
          IN Returned([contacts |-> minimal,
                       total |-> Len(matched.val),
                       returned |-> Len(minimal),
                       filters_applied |->
                         [min_quality_score |-> a.min_quality_score,
                          is_executive |-> a.is_executive,
                          country |-> a.country,
                          industry |-> a.industry,
                          contact_state |-> a.contact_state]])

query_contacts_tool(st, a) == QueryFrom(load_contacts_from_csv(st), a)

(***************************************************************************)
(* Stats Aggregator                                                        *)
(***************************************************************************)
\* d[key] = 1, forgetting the count the key had
IncrementOverwrite(d, key) == [k \in DOMAIN d \cup {key} |-> IF k = key THEN 1 ELSE d[k]]

\* d[key] = d.get(key, 0) + 1
Increment(d, key) ==
  [k \in DOMAIN d \cup {key} |->
     IF k = key THEN (IF key \in DOMAIN d THEN d[key] ELSE 0) + 1 ELSE d[k]]

\* the dict of counts after the loop over the keys
RECURSIVE CountKeys(_, _)
CountKeys(d, keys) ==
  IF keys = <<>> THEN d ELSE CountKeys(Increment(d, keys[1]), Tail(keys))

EmptyDict == [k \in {} |-> 0]

RECURSIVE SumScores(_)
SumScores(cs) == IF cs = <<>> THEN 0 ELSE cs[1].qualityScore.n + SumScores(Tail(cs))

\* round(num / den, 1) in tenths, ties to the even tenth (a tie is a
\* quotient ending in .25 or .75, which a float holds exactly)
RoundTenths(num, den) ==
  LET n == 10 * num
      q == n \div den
      r == n % den
  IN IF 2 * r < den THEN q
     ELSE IF 2 * r > den THEN q + 1
     ELSE IF q % 2 = 0 THEN q ELSE q + 1

\* sum(...) / len(contacts) if contacts else 0, then round(avg_quality, 1)
AvgQuality(cs) ==
  IF cs # <<>> THEN [tenths |-> RoundTenths(SumScores(cs), Len(cs))] ELSE [tenths |-> 0]

\* group_by is None or the name of a field
GroupBy(k) == [t |-> "str", k |-> k]

GroupGiven(g) == g # PyNone /\ g.k # ""

\* lines 248-293, on the contacts that line 246 loaded
StatsFrom(loaded, group_by) ==
  IF ~loaded.ok THEN loaded
  ELSE LET cs == loaded.val
           by_state == CountKeys(EmptyDict,
                         [i \in 1..Len(cs) |->
                            IF "contactState" \in DOMAIN cs[i] THEN cs[i].contactState
                            ELSE PyStr(s_UNKNOWN)])
           by_stage == CountKeys(EmptyDict,
                         [i \in 1..Len(cs) |->
                            IF "stage" \in DOMAIN cs[i] THEN cs[i].stage
                            ELSE PyStr(s_Unknown)])
           executives == Len(SelectSeq(cs, LAMBDA c : Truthy(c.isExecutive)))
           verified_not_contacted ==
             Len(SelectSeq(cs, LAMBDA c :
                   /\ PyEq(FieldOf(c, "emailStatus"), PyStr(s_Verified))
                   /\ PyEq(c.contactState, PyStr(NOT_CONTACTED))))
           high_quality_not_contacted ==
             Len(SelectSeq(cs, LAMBDA c :
                   /\ c.qualityScore.n >= 70
                   /\ \/ PyEq(c.contactState, PyStr(NOT_CONTACTED))
                      \/ PyEq(c.contactState, PyStr(INTERESTED_NOT_CONTACTED))))
           breakdown ==
             IF GroupGiven(group_by)
             THEN [t |-> "dict",
                   d |-> CountKeys(EmptyDict,
                           [i \in 1..Len(cs) |->
                              IF group_by.k \in DOMAIN cs[i]
                              THEN PyStrOf(cs[i][group_by.k]) ELSE s_Unknown])]
             ELSE PyNone
       IN Returned([total |-> Len(cs),
                    byState |-> by_state,
                    byStage |-> by_stage,
                    highValueTargets |->
                      [executives |-> executives,
                       verifiedNotContacted |-> verified_not_contacted,
                       highQualityNotContacted |-> high_quality_not_contacted],
                    avgQualityScore |-> AvgQuality(cs),
                    breakdown |-> breakdown])

get_contact_stats_tool(st, group_by) == StatsFrom(load_contacts_from_csv(st), group_by)

(***************************************************************************)
(* Relevance Ranker                                                        *)
(***************************************************************************)
terms ==
  << <<"f","i","n","t","e","c","h">>,
     <<"p","a","y","m","e","n","t">>,
     <<"s","a","a","s">>,
     <<"t","r","a","v","e","l">>,
     <<"c","f","o">>,
     <<"c","e","o">>,
     <<"e","x","e","c","u","t","i","v","e">>,
     <<"c","o","l","o","m","b","i","a">>,
     <<"m","e","x","i","c","o">> >>

\* [term for term in terms if term in query_lower]
ExtractKeywords(query) == SelectSeq(terms, LAMBDA term : Contains(Lower(query), term))

\* the five parts of the text of a contact (lines 337-341); ' '.join
\* raises TypeError on a part that is not a str
TextParts(c) ==
  << IF "title" \in DOMAIN c THEN c.title ELSE PyStr(<<>>),
     IF "companyName" \in DOMAIN c THEN c.companyName ELSE PyStr(<<>>),
     IF "industry" \in DOMAIN c THEN c.industry ELSE PyStr(<<>>),
     PyStr(Join(IF "keywords" \in DOMAIN c THEN c.keywords.l ELSE <<>>, <<" ">>)),
     PyStr(Join(IF "technologies" \in DOMAIN c THEN c.technologies.l ELSE <<>>, <<" ">>)) >>

TextFails(c) == \E i \in 1..5 : TextParts(c)[i].t # "str"

TextOf(c) == Lower(Join([i \in 1..5 |-> TextParts(c)[i].s], <<" ">>))

\* the number of places of the text at which a keyword occurs
Occurrences(text, sub) ==
  Cardinality({i \in 0..(Len(text) - Len(sub)) : \A j \in 1..Len(sub) : text[i + j] = sub[j]})

\* the score adding one for every occurrence of a keyword in the text
RECURSIVE KeywordScorePerOccurrence(_, _)
KeywordScorePerOccurrence(c, keywords) ==
  IF keywords = <<>> THEN 0
  ELSE Occurrences(TextOf(c), keywords[1]) + KeywordScorePerOccurrence(c, Tail(keywords))

\* the loop of lines 344-346
KeywordScore(c, keywords) ==
  Len(SelectSeq(keywords, LAMBDA keyword : Contains(TextOf(c), keyword)))

\* list.sort(key=score, reverse=True): stable, so an entry goes behind the
\* entries already placed whose score is not below its own
RECURSIVE InsertByScore(_, _)
InsertByScore(sorted, e) ==
  IF sorted = <<>> THEN <<e>>
  ELSE IF sorted[1].score >= e.score
       THEN <<sorted[1]>> \o InsertByScore(Tail(sorted), e)
       ELSE <<e>> \o sorted

RECURSIVE SortByScore(_, _)
SortByScore(sorted, rest) ==
  IF rest = <<>> THEN sorted
  ELSE SortByScore(InsertByScore(sorted, rest[1]), Tail(rest))

\* relevanceScore: score / len(keywords) if keywords else 0, as a fraction
Relevance(score, keywords) ==
  IF keywords # <<>> THEN [num |-> score, den |-> Len(keywords)] ELSE [num |-> 0, den |-> 1]

\* lines 332-394, on the contacts that line 330 loaded
SearchFrom(loaded, a) ==
  LET keywords == ExtractKeywords(a.query.s)
  IN IF ~loaded.ok THEN loaded
     ELSE IF \E i \in 1..Len(loaded.val) : TextFails(loaded.val[i]) THEN Raised("TypeError")
     ELSE
       LET all == [i \in 1..Len(loaded.val) |->
                     [c |-> loaded.val[i], score |-> KeywordScore(loaded.val[i], keywords)]]
           scored_contacts == SortByScore(<<>>, SelectSeq(all, LAMBDA e : e.score > 0))
           filtered ==
             SelectSeq(scored_contacts,
               LAMBDA e :
                 /\ ~(Truthy(a.min_quality_score) /\ e.c.qualityScore.n < a.min_quality_score.n)
                 /\ ~(a.is_executive # PyNone /\ ~PyEq(e.c.isExecutive, a.is_executive))
                 /\ ~(Truthy(a.country) /\ ~PyEq(FieldOf(e.c, "country"), a.country)))
           top == SliceTo(filtered, a.top_k.n)
           results == [i \in 1..Len(top) |->
                         Minimal(top[i].c) @@
                         [relevanceScore |-> Relevance(top[i].score, keywords)]]
       IN Returned([contacts |-> results,
                    totalMatched |-> Len(results),
                    searchQuery |-> a.query,
                    extractedKeywords |-> keywords,
                    note |-> "keyword-based fallback"])

vector_search_contacts_tool(st, a) == SearchFrom(load_contacts_from_csv(st), a)

s_ceo == <<"c","e","o">>

s_SAAS == <<"S","A","A","S">>

s_like == <<"l","i","k","e">>

s_us == <<"u","s">>

s_Unverified == <<"U","n","v","e","r","i","f","i","e","d">>

(***************************************************************************)
(* The backing store and the arguments of the calls                        *)
(***************************************************************************)
MaxRows == 2

\* four rows of one export (the same header in every row)
RowA == With(BaseRecord, "Replied" :> PyStr(<<>>))

RowB ==
  With(BaseRecord,
       ("Replied" :> PyStr(s_true)) @@ ("Title" :> PyStr(s_CEO)) @@
       ("Country" :> PyStr(s_CO)) @@ ("Industry" :> PyStr(s_Travel)) @@
       ("Person Linkedin Url" :> PyStr(<<>>)) @@ ("Mobile Phone" :> PyStr(<<>>)) @@
       ("Email Status" :> PyStr(s_Unverified)))

RowC ==
  With(BaseRecord,
       ("Replied" :> PyStr(<<>>)) @@ ("Email" :> PyStr(<<>>)) @@
       ("Country" :> PyStr(<<>>)) @@ ("Industry" :> PyStr(<<>>)) @@
       ("First Name" :> PyStr(<<>>)) @@ ("Stage" :> PyStr(s_Interested)))

RowD == With(BaseRecord, ("Replied" :> PyStr(<<>>)) @@ ("# Employees" :> PyStr(s_abc)))

Catalogue == {RowA, RowB, RowC, RowD}

RECURSIVE SeqsUpTo(_, _)
SeqsUpTo(S, n) ==
  IF n = 0 THEN {<<>>}
  ELSE LET shorter == SeqsUpTo(S, n - 1)
       IN shorter \cup {Append(q, x) : q \in {r \in shorter : Len(r) = n - 1}, x \in S}

MissingStore == [exists |-> FALSE, rows |-> <<>>]

Stores == {MissingStore} \cup {[exists |-> TRUE, rows |-> q] : q \in SeqsUpTo(Catalogue, MaxRows)}

Clause(field, operator, value) == [field |-> field, operator |-> PyStr(operator), value |-> value]

Clauses ==
  {Clause("title", s_contains, PyStr(s_ceo)),
   Clause("keywords", s_contains, PyStr(s_SAAS)),
   Clause("country", s_equals, PyStr(s_US)),
   Clause("qualityScore", s_gte, PyInt(70)),
   Clause("title", s_like, PyStr(s_ceo)),
   Clause("title", s_contains, PyNone)}

ClauseLists == {PyNone} \cup {PyList(q) : q \in SeqsUpTo(Clauses, 2)}

QueryDefaults ==
  [where_clauses |-> PyNone, min_quality_score |-> PyNone, is_executive |-> PyNone,
   country |-> PyNone, industry |-> PyNone, contact_state |-> PyNone, limit |-> PyInt(50)]

MinScores == {PyNone, PyInt(0), PyInt(70)}

ExecFlags == {PyNone, PyBool(TRUE), PyBool(FALSE)}

Limits == {PyInt(0 - 1), PyInt(0), PyInt(1), PyInt(2), PyInt(50)}

\* the calls of query_contacts the model makes: every combination of the
\* typed filters; every limit with two of them; the clause lists with a
\* limit and the executive filter
QueryArgs ==
  { [QueryDefaults EXCEPT !.min_quality_score = m, !.is_executive = e, !.country = c,
                          !.industry = i, !.contact_state = s] :
      m \in MinScores, e \in ExecFlags,
      c \in {PyNone, PyStr(<<>>), PyStr(s_US), PyStr(s_us)},
      i \in {PyNone, PyStr(<<>>), PyStr(s_Travel)},
      s \in {PyNone, PyStr(<<>>), PyStr(REPLIED)} }
  \cup
  { [QueryDefaults EXCEPT !.min_quality_score = m, !.is_executive = e, !.limit = l] :
      m \in MinScores, e \in ExecFlags, l \in Limits }
  \cup
  { [QueryDefaults EXCEPT !.where_clauses = w, !.is_executive = e, !.limit = l] :
      w \in ClauseLists, e \in {PyNone, PyBool(TRUE)}, l \in {PyInt(1), PyInt(50)} }

(***************************************************************************)
(* query_contacts called on a store                                        *)
(***************************************************************************)
InitQuery ==
  /\ record = BaseRecord
  /\ ret = NoRet
  /\ store \in Stores
  /\ SysIdle

QueryContacts ==
  \E a \in QueryArgs :
    /\ ret = NoRet
    /\ ret' = [fn |-> "query_contacts_tool", args |-> a, out |-> query_contacts_tool(store, a)]
    /\ UNCHANGED <<record, store, pc, args, contacts, result, calls, chatvars>>

NextQuery == QueryContacts

SpecQuery == InitQuery /\ [][NextQuery]_vars

(***************************************************************************)
(* Properties of query_contacts                                            *)
(***************************************************************************)
QueryReturned == ret.fn = "query_contacts_tool" /\ ret.out.ok

Min(a, b) == IF a < b THEN a ELSE b

\* the filtered, untruncated sequence of the call in ret
Untruncated == FilterContacts(load_contacts_from_csv(store), ret.args).val

\* C6: for every limit L, total >= len(contacts), returned = len(contacts)
\* and contacts is the prefix of length min(L, total) of the filtered,
\* untruncated sequence (the empty prefix when min(L, total) is below 1).
C6_LimitPrefix ==
  QueryReturned =>
    LET r == ret.out.val
        L == ret.args.limit.n
    IN /\ r.total >= Len(r.contacts)
       /\ r.returned = Len(r.contacts)
       /\ r.total = Len(Untruncated)
       /\ r.contacts = MinimalAll(SubSeq(Untruncated, 1, Min(L, r.total)))

\* a typed filter that the call supplies: an argument that is not None
SuppliedNotNone(v) == v # PyNone

\* a typed filter that the code applies: min_quality_score and is_executive
\* when not None, country, industry and contact_state when a non-empty str
SuppliedScore(v) == v # PyNone

SuppliedText(v) == v # PyNone /\ v # PyStr(<<>>)

\* a contact satisfies a generic clause (spec 4.3)
Satisfies(c, clause) ==
  LET op == clause.operator.s
      v == clause.value
  IN CASE op = s_contains ->
            /\ clause.field \in DOMAIN c
            /\ Truthy(c[clause.field])
            /\ v.t = "str"
            /\ Contains(Lower(PyStrOf(c[clause.field])), Lower(v.s))
       [] op = s_equals -> PyEq(FieldOf(c, clause.field), v)
       [] op = s_gte ->
            /\ IsNumber(FieldOr0(c, clause.field))
            /\ IsNumber(v)
            /\ AsNumber(FieldOr0(c, clause.field)) >= AsNumber(v)
       [] OTHER -> TRUE

SatisfiesAll(c, w) ==
  w = PyNone \/ \A i \in 1..Len(w.l) : Satisfies(c, w.l[i])

\* a contact passes the typed filters, Text(v) saying when a str filter counts
\* as supplied
PassesTyped(c, a, Text(_)) ==
  /\ SuppliedScore(a.min_quality_score) => c.qualityScore.n >= a.min_quality_score.n
  /\ SuppliedScore(a.is_executive) => c.isExecutive = a.is_executive
  /\ Text(a.country) => c.country = a.country
  /\ Text(a.industry) => c.industry = a.industry
  /\ Text(a.contact_state) => c.contactState = a.contact_state

\* the result is the subsequence, in load order, of the contacts that pass
SubsequenceOfPassing(Text(_)) ==
  LET loaded == load_contacts_from_csv(store).val
      expected == SelectSeq(loaded,
                    LAMBDA c : PassesTyped(c, ret.args, Text) /\ SatisfiesAll(c, ret.args.where_clauses))
      r == ret.out.val
  IN /\ r.total = Len(expected)
     /\ r.returned = r.total => r.contacts = MinimalAll(expected)

\* C7 as claimed: the untruncated result is the subsequence, in load order,
\* of the contacts that satisfy every typed filter that is not None, each by
\* exact equality, and every generic clause.
C7_AsClaimed == QueryReturned => SubsequenceOfPassing(SuppliedNotNone)

\* C7: the untruncated result is the subsequence, in load order, of the
\* contacts that satisfy every supplied typed filter and every generic
\* clause, where country, industry and contact_state count as supplied only
\* when they are a non-empty string; a filter not supplied excludes nothing.
C7_FilterSubsequence == QueryReturned => SubsequenceOfPassing(SuppliedText)

C7_Witness ==
  /\ QueryReturned
  /\ ret.args.is_executive = PyBool(TRUE)
  /\ ret.args.where_clauses # PyNone
  /\ Len(ret.args.where_clauses.l) = 2
  /\ store.rows = <<RowA, RowB>>
  /\ ret.out.val.total = 1
  /\ ret.out.val.contacts = <<Minimal(transform_apollo_to_contact(RowB).val)>>

s_q1 == <<"F","i","n","t","e","c","h"," ","C","E","O">>

(***************************************************************************)
(* The entry points called one after the other while the store changes     *)
(***************************************************************************)
MaxSysRows == 1

MaxCalls == 2

SysCatalogue == {RowA}

SysStores ==
  {MissingStore} \cup {[exists |-> TRUE, rows |-> q] : q \in SeqsUpTo(SysCatalogue, MaxSysRows)}

SearchDefaults ==
  [query |-> PyStr(s_q1), top_k |-> PyInt(20), min_quality_score |-> PyNone,
   is_executive |-> PyNone, country |-> PyNone]

SysQueryArgs == {QueryDefaults}

SysStatsArgs == {PyNone, GroupBy("industry")}

SysSearchArgs == {SearchDefaults}

\* the body of an entry point after its load_contacts_from_csv() call
EntryFrom(op, loaded, a) ==
  CASE op = "query_contacts" -> QueryFrom(loaded, a)
    [] op = "get_contact_stats" -> StatsFrom(loaded, a)
    [] op = "vector_search_contacts" -> SearchFrom(loaded, a)

\* the file an entry point reads with the store caching its first load
FirstLoadedStore == IF calls # <<>> THEN calls[1].store ELSE store

\* the file an entry point reads: CSV_PATH, as it is when the call is made
CurrentStore == store

InitSeq ==
  /\ record = BaseRecord
  /\ ret = NoRet
  /\ store \in SysStores
  /\ SysIdle

\* something outside the program replaces, creates or removes the export
StoreChange ==
  /\ \E s \in SysStores : s # store /\ store' = s
  /\ UNCHANGED <<record, ret, pc, args, contacts, result, calls, chatvars>>

\* a whole call of an entry point; calls logs it with the store it was made on
CallEntry(op, a) ==
  /\ Len(calls) < MaxCalls
  /\ calls' = Append(calls,
                [op |-> op, args |-> a, store |-> store,
                 result |-> EntryFrom(op, load_contacts_from_csv(CurrentStore), a)])
  /\ UNCHANGED <<record, ret, store, pc, args, contacts, result, chatvars>>

QueryContactsCall == \E a \in SysQueryArgs : CallEntry("query_contacts", a)

GetContactStatsCall == \E g \in SysStatsArgs : CallEntry("get_contact_stats", g)

VectorSearchContactsCall == \E a \in SysSearchArgs : CallEntry("vector_search_contacts", a)

NextSeq ==
  \/ StoreChange
  \/ QueryContactsCall
  \/ GetContactStatsCall
  \/ VectorSearchContactsCall

SpecSeq == InitSeq /\ [][NextSeq]_vars

\* the result of an entry point run on its own on a store
RunAlone(op, st, a) ==
  CASE op = "query_contacts" -> query_contacts_tool(st, a)
    [] op = "get_contact_stats" -> get_contact_stats_tool(st, a)
    [] op = "vector_search_contacts" -> vector_search_contacts_tool(st, a)

\* C8: every call reflects the store as it is at the time of the call: its
\* result is the one the entry point gives on that store, and two calls with
\* the same arguments on the same store content give the same result,
\* whatever was called or stored before.
C8_NoCaching ==
  \A i \in 1..Len(calls) :
    /\ calls[i].result = RunAlone(calls[i].op, calls[i].store, calls[i].args)
    /\ \A j \in 1..Len(calls) :
         (calls[i].op = calls[j].op /\ calls[i].args = calls[j].args
            /\ calls[i].store = calls[j].store)
           => calls[i].result = calls[j].result

C8_Witness ==
  /\ Len(calls) = 2
  /\ calls[1].op = calls[2].op
  /\ calls[1].args = calls[2].args
  /\ calls[1].store # calls[2].store
  /\ calls[1].result.ok
  /\ calls[2].result.ok
  /\ calls[1].result # calls[2].result

(***************************************************************************)
(* Concurrent invocations of the entry points                              *)
(***************************************************************************)
SysCalls ==
  {[op |-> "query_contacts", a |-> a] :
     a \in SysQueryArgs \cup {[QueryDefaults EXCEPT !.min_quality_score = PyInt(70)]}} \cup
  {[op |-> "get_contact_stats", a |-> g] : g \in SysStatsArgs} \cup
  {[op |-> "vector_search_contacts", a |-> a] : a \in SysSearchArgs}

InitConc ==
  /\ record = BaseRecord
  /\ ret = NoRet
  /\ store \in SysStores
  /\ SysIdle

\* the tool is invoked: its arguments are bound, nothing is read yet
Invoke(p) ==
  /\ pc[p] \in {Idle, "done"}
  /\ \E c \in SysCalls : args' = [args EXCEPT ![p] = c]
  /\ pc' = [pc EXCEPT ![p] = "called"]
  /\ contacts' = [contacts EXCEPT ![p] = NoValue]
  /\ result' = [result EXCEPT ![p] = NoValue]
  /\ UNCHANGED <<record, ret, store, calls, chatvars>>

\* contacts = load_contacts_from_csv(), into the local of this invocation;
\* from records the store that was read
Load(p) ==
  /\ pc[p] = "called"
  /\ contacts' = [contacts EXCEPT ![p] =
                    [from |-> store, loaded |-> load_contacts_from_csv(store)]]
  /\ pc' = [pc EXCEPT ![p] = "loaded"]
  /\ UNCHANGED <<record, ret, store, args, result, calls, chatvars>>

\* the contacts an invocation works on when they are one module-level list
\* that every invocation assigns
ContactsOfShared(p) ==
  IF pc[1] \in {"loaded", "done"} THEN contacts[1].loaded ELSE contacts[p].loaded

\* the contacts an invocation works on: its own local list
ContactsOf(p) == contacts[p].loaded

\* the rest of the entry point, up to its return
Finish(p, op) ==
  /\ pc[p] = "loaded"
  /\ args[p].op = op
  /\ result' = [result EXCEPT ![p] = EntryFrom(op, ContactsOf(p), args[p].a)]
  /\ pc' = [pc EXCEPT ![p] = "done"]
  /\ UNCHANGED <<record, ret, store, args, contacts, calls, chatvars>>

QueryContactsReturn(p) == Finish(p, "query_contacts")

GetContactStatsReturn(p) == Finish(p, "get_contact_stats")

VectorSearchContactsReturn(p) == Finish(p, "vector_search_contacts")

NextConc ==
  \/ StoreChange
  \/ \E p \in Procs : Invoke(p)
  \/ \E p \in Procs : Load(p)
  \/ \E p \in Procs : QueryContactsReturn(p)
  \/ \E p \in Procs : GetContactStatsReturn(p)
  \/ \E p \in Procs : VectorSearchContactsReturn(p)

SpecConc == InitConc /\ [][NextConc]_vars

\* an invocation that returns gives the result of the entry point run alone
\* on the store it read
ResultAsAlone ==
  \A p \in Procs :
    pc[p] = "done" => result[p] = RunAlone(args[p].op, contacts[p].from, args[p].a)

\* a step of an invocation leaves the store and the other invocations alone
LocalOf(p) == <<pc[p], args[p], contacts[p], result[p]>>

StepIsLocal ==
  /\ store' # store => \A p \in Procs : LocalOf(p)' = LocalOf(p)
  /\ \A p \in Procs :
       LocalOf(p)' # LocalOf(p) =>
         /\ store' = store
         /\ \A q \in Procs \ {p} : LocalOf(q)' = LocalOf(q)

\* C9: under any interleaving no invocation changes the backing store or the
\* state of another invocation, and each returns the result it would return
\* run alone on the store it read.
C9_Independent == []ResultAsAlone /\ [][StepIsLocal]_vars

C9_Witness ==
  /\ pc[1] = "done"
  /\ pc[2] = "done"
  /\ args[1] = args[2]
  /\ contacts[1].from # contacts[2].from
  /\ result[1].ok
  /\ result[2].ok
  /\ result[1] # result[2]

\* C10: when the store does not exist, load returns the empty sequence and
\* every entry point returns an empty result without raising: query_contacts
\* total 0 and no contacts, vector_search_contacts no contacts,
\* get_contact_stats total 0, empty byState and avgQualityScore 0.
C10_MissingStoreIsEmpty ==
  \A p \in Procs :
    (pc[p] \in {"loaded", "done"} /\ ~contacts[p].from.exists) =>
      /\ contacts[p].loaded = Returned(<<>>)
      /\ pc[p] = "done" =>
           /\ result[p].ok
           /\ args[p].op = "query_contacts" =>
                /\ result[p].val.total = 0
                /\ result[p].val.returned = 0
                /\ result[p].val.contacts = <<>>
           /\ args[p].op = "vector_search_contacts" =>
                /\ result[p].val.contacts = <<>>
                /\ result[p].val.totalMatched = 0
           /\ args[p].op = "get_contact_stats" =>
                /\ result[p].val.total = 0
                /\ result[p].val.byState = EmptyDict
                /\ result[p].val.avgQualityScore = [tenths |-> 0]

C10_Witness ==
  /\ pc[1] = "done"
  /\ ~contacts[1].from.exists
  /\ args[1].op = "get_contact_stats"
  /\ result[1].ok
  /\ result[1].val.avgQualityScore = [tenths |-> 0]
  /\ pc[2] = "done"
  /\ ~contacts[2].from.exists
  /\ args[2].op = "query_contacts"
  /\ result[2].val.total = 0

(***************************************************************************)
(* query_contacts filtering on the executive flag                          *)
(***************************************************************************)
s_Csuite == <<"C"," ","s","u","i","t","e">>

s_Founder == <<"F","o","u","n","d","e","r">>

s_id2 == <<"c","2">>

s_id3 == <<"c","3">>

s_id4 == <<"c","4">>

MaxExecRows == 2

\* rows that differ in Title and Seniority; RowShort is a short row
RowCEO ==
  With(BaseRecord,
       ("Apollo Contact Id" :> PyStr(s_id2)) @@ ("Title" :> PyStr(s_CEO)) @@
       ("Seniority" :> PyStr(<<>>)))

RowSuite ==
  With(BaseRecord, ("Apollo Contact Id" :> PyStr(s_id3)) @@ ("Seniority" :> PyStr(s_Csuite)))

RowFounder ==
  With(BaseRecord,
       ("Apollo Contact Id" :> PyStr(s_id4)) @@ ("Title" :> PyStr(s_Founder)) @@
       ("Seniority" :> Absent))

RowShort == With(BaseRecord, ("Title" :> PyNone) @@ ("Seniority" :> PyNone))

ExecCatalogue == {RowA, RowCEO, RowSuite, RowFounder, RowShort}

ExecStores ==
  {MissingStore} \cup
  {[exists |-> TRUE, rows |-> q] : q \in SeqsUpTo(ExecCatalogue, MaxExecRows)}

ExecQueryArgs ==
  { [QueryDefaults EXCEPT !.is_executive = e, !.limit = l] :
      e \in ExecFlags \cup {PyInt(1)}, l \in {PyInt(1), PyInt(50)} }

InitExec ==
  /\ record = BaseRecord
  /\ ret = NoRet
  /\ store \in ExecStores
  /\ SysIdle

QueryExecutives ==
  \E a \in ExecQueryArgs :
    /\ ret = NoRet
    /\ ret' = [fn |-> "query_contacts_tool", args |-> a, out |-> query_contacts_tool(store, a)]
    /\ UNCHANGED <<record, store, pc, args, contacts, result, calls, chatvars>>

NextExec == QueryExecutives

SpecExec == InitExec /\ [][NextExec]_vars

\* the seven substrings of the claim
ClaimedKeywords ==
  { <<"s","u","i","t","e">>, <<"f","o","u","n","d","e","r">>, <<"c","e","o">>,
    <<"c","t","o">>, <<"c","f","o">>, <<"c","o","o">>, <<"c","h","i","e","f">> }

\* the text of a cell of a row, empty when the row has no such column
CellText(r, col) == IF col \in DOMAIN r /\ r[col].t = "str" THEN r[col].s ELSE <<>>

\* Seniority or Title, compared case-insensitively, contains a keyword
ExecByKeywords(r) ==
  \E kw \in ClaimedKeywords :
    \/ Contains(Lower(CellText(r, "Seniority")), kw)
    \/ Contains(Lower(CellText(r, "Title")), kw)

\* the row with a keyword appended to its Title or Seniority
Appended(r, col, kw) == With(r, col :> PyStr(CellText(r, col) \o <<" ">> \o kw))

\* C11: isExecutive is true iff Seniority or Title, compared
\* case-insensitively, contains one of suite, founder, ceo, cto, cfo, coo,
\* chief; query_contacts(is_executive=True) returns exactly those contacts;
\* appending a matching keyword to Title or Seniority never turns the flag
\* from true to false.
C11_ExecutiveFlag ==
  LET loaded == load_contacts_from_csv(store)
      rows == store.rows
      execRows == SelectSeq(rows, LAMBDA r : ExecByKeywords(r))
  IN loaded.ok =>
       /\ \A i \in 1..Len(rows) :
            /\ loaded.val[i].isExecutive = PyBool(ExecByKeywords(rows[i]))
            /\ \A kw \in ClaimedKeywords : \A col \in {"Title", "Seniority"} :
                 ExecByKeywords(rows[i]) =>
                   is_executive_contact(Appended(rows[i], col, kw)) = Returned(TRUE)
       /\ (ret.fn = "query_contacts_tool" /\ ret.args.is_executive = PyBool(TRUE)) =>
            /\ ret.out.ok
            /\ ret.out.val.total = Len(execRows)
            /\ ret.out.val.contacts =
                 SliceTo([i \in 1..Len(execRows) |->
                            Minimal(transform_apollo_to_contact(execRows[i]).val)],
                         ret.args.limit.n)

C11_Witness ==
  /\ store.rows = <<RowCEO, RowA>>
  /\ ret.fn = "query_contacts_tool"
  /\ ret.args.is_executive = PyBool(TRUE)
  /\ ret.args.limit = PyInt(50)
  /\ ret.out.ok
  /\ ret.out.val.contacts = <<Minimal(transform_apollo_to_contact(RowCEO).val)>>
  /\ Minimal(transform_apollo_to_contact(RowCEO).val).title = PyStr(s_CEO)

(***************************************************************************)
(* get_contact_stats called on a store                                     *)
(***************************************************************************)
MaxStatsRows == 3

\* a row of an export that has no Industry column
RowNoIndustry ==
  With(BaseRecord, ("Apollo Contact Id" :> PyStr(s_id2)) @@ ("Industry" :> Absent))

StatsCatalogue == {RowA, RowB, RowC, RowNoIndustry}

StatsStores ==
  {MissingStore} \cup
  {[exists |-> TRUE, rows |-> q] : q \in SeqsUpTo(StatsCatalogue, MaxStatsRows)}

\* group_by: not given, the empty string, fields of a contact that hold a
\* str, an int and a bool, and a name that is no field of a contact
StatsGroupBys ==
  {PyNone, GroupBy(""), GroupBy("industry"), GroupBy("qualityScore"),
   GroupBy("isExecutive"), GroupBy("revenue")}

InitStats ==
  /\ record = BaseRecord
  /\ ret = NoRet
  /\ store \in StatsStores
  /\ SysIdle

GetContactStats ==
  \E g \in StatsGroupBys :
    /\ ret = NoRet
    /\ ret' = [fn |-> "get_contact_stats_tool", args |-> g,
               out |-> get_contact_stats_tool(store, g)]
    /\ UNCHANGED <<record, store, pc, args, contacts, result, calls, chatvars>>

NextStats == GetContactStats

SpecStats == InitStats /\ [][NextStats]_vars

StatsReturned == ret.fn = "get_contact_stats_tool" /\ ret.out.ok

\* the sum of the counts of a dict
RECURSIVE SumCounts(_)
SumCounts(d) ==
  IF DOMAIN d = {} THEN 0
  ELSE LET k == CHOOSE x \in DOMAIN d : TRUE
       IN d[k] + SumCounts([x \in DOMAIN d \ {k} |-> d[x]])

\* C12: the byState counts sum to total, the number of loaded contacts;
\* every key of byState is one of the 8 contact states; a key is a state
\* that occurs in the dataset, so no key has count 0.
C12_ByStateSumsToTotal ==
  StatsReturned =>
    LET r == ret.out.val
        loaded == load_contacts_from_csv(store).val
    IN /\ r.total = Len(loaded)
       /\ SumCounts(r.byState) = r.total
       /\ \A k \in DOMAIN r.byState :
            /\ k.t = "str"
            /\ k.s \in ContactStates
            /\ r.byState[k] > 0
            /\ r.byState[k] = Cardinality({i \in 1..Len(loaded) : loaded[i].contactState = k})

C12_Witness ==
  /\ StatsReturned
  /\ ret.out.val.total = 3
  /\ DOMAIN ret.out.val.byState = {PyStr(NOT_CONTACTED), PyStr(REPLIED)}
  /\ ret.out.val.byState[PyStr(NOT_CONTACTED)] = 2
  /\ ret.out.val.byState[PyStr(REPLIED)] = 1

\* a contact has no value for a field: the field is no key of it, or its
\* value is None (the export has no such column) or the empty cell
ValueMissing(c, f) == f \notin DOMAIN c \/ c[f] = PyNone \/ c[f] = PyStr(<<>>)

\* the breakdown the claim describes: the contacts counted by the value of
\* the field, a missing value under "Unknown"
ClaimedBreakdown(cs, f) ==
  CountKeys(EmptyDict,
            [i \in 1..Len(cs) |-> IF ValueMissing(cs[i], f) THEN s_Unknown
                                  ELSE PyStrOf(cs[i][f])])

\* C13: get_contact_stats(group_by=f) counts the contacts by the value of
\* field f, every contact whose value for f is missing under the key
\* "Unknown"; the counts sum to total; breakdown is null when group_by is not
\* given.
C13_BreakdownUnknown ==
  StatsReturned =>
    LET r == ret.out.val
        loaded == load_contacts_from_csv(store).val
    IN IF ret.args = PyNone THEN r.breakdown = PyNone
       ELSE IF ret.args.k = "" THEN TRUE
       ELSE /\ r.breakdown # PyNone
            /\ SumCounts(r.breakdown.d) = r.total
            /\ r.breakdown.d = ClaimedBreakdown(loaded, ret.args.k)

(***************************************************************************)
(* vector_search_contacts called on a store                                *)
(***************************************************************************)
s_hello == <<"h","e","l","l","o">>

s_q3 == <<"S","a","a","S"," ","p","a","y","m","e","n","t"," ","t","r","a","v","e","l">>

MaxSearchRows == 2

\* a row with the term fintech in two columns and the term ceo in one
RowTwice ==
  With(BaseRecord,
       ("Apollo Contact Id" :> PyStr(s_id3)) @@ ("Title" :> PyStr(s_CEO)) @@
       ("Company Name" :> PyStr(s_Fintech)))

SearchCatalogue == {RowA, RowB, RowC, RowNoIndustry, RowTwice}

SearchStores ==
  {MissingStore} \cup
  {[exists |-> TRUE, rows |-> q] : q \in SeqsUpTo(SearchCatalogue, MaxSearchRows)}

Queries == {PyStr(s_hello), PyStr(s_q1), PyStr(s_q3)}

TopKs == {PyInt(0 - 1), PyInt(0), PyInt(1), PyInt(20)}

\* the calls of vector_search_contacts the model makes: every query with
\* every top_k, and with every combination of the three filters
SearchArgs ==
  { [SearchDefaults EXCEPT !.query = q, !.top_k = k] : q \in Queries, k \in TopKs }
  \cup
  { [SearchDefaults EXCEPT !.query = q, !.min_quality_score = m, !.is_executive = e,
                           !.country = c] :
      q \in Queries, m \in {PyNone, PyInt(70)}, e \in {PyNone, PyBool(TRUE)},
      c \in {PyNone, PyStr(<<>>), PyStr(s_US)} }

InitSearch ==
  /\ record = BaseRecord
  /\ ret = NoRet
  /\ store \in SearchStores
  /\ SysIdle

VectorSearchContacts ==
  \E a \in SearchArgs :
    /\ ret = NoRet
    /\ ret' = [fn |-> "vector_search_contacts_tool", args |-> a,
               out |-> vector_search_contacts_tool(store, a)]
    /\ UNCHANGED <<record, store, pc, args, contacts, result, calls, chatvars>>

NextSearch == VectorSearchContacts

SpecSearch == InitSearch /\ [][NextSearch]_vars

SearchCalled == ret.fn = "vector_search_contacts_tool"

SearchReturned == SearchCalled /\ ret.out.ok

\* a contact passes the quality floor, the executive filter and the country
\* filter of a search; a filter that is None (or, for country, the empty
\* string) is not supplied and excludes nothing
PassesSearchFilters(c, a) ==
  /\ (a.min_quality_score # PyNone) => c.qualityScore.n >= a.min_quality_score.n
  /\ (a.is_executive # PyNone) => c.isExecutive = a.is_executive
  /\ SuppliedText(a.country) => c.country = a.country

\* the contacts of cs with the scores s, s - 1, ..., 1, each score in the
\* order of cs
RECURSIVE ByScoreFrom(_, _, _)
ByScoreFrom(cs, keywords, s) ==
  IF s < 1 THEN <<>>
  ELSE SelectSeq(cs, LAMBDA c : KeywordScore(c, keywords) = s)
         \o ByScoreFrom(cs, keywords, s - 1)

\* the ranked sequence of the claim: the contacts with a score above 0 that
\* pass the filters, by descending score, equal scores in load order
Ranked ==
  LET keywords == ExtractKeywords(ret.args.query.s)
      loaded == load_contacts_from_csv(store).val
      passing == SelectSeq(loaded, LAMBDA c : PassesSearchFilters(c, ret.args))
  IN ByScoreFrom(passing, keywords, Len(keywords))

\* a contact as an entry of the result
AsResult(c) ==
  LET keywords == ExtractKeywords(ret.args.query.s)
  IN Minimal(c) @@ [relevanceScore |-> Relevance(KeywordScore(c, keywords), keywords)]

\* C14: the result is the first top_k entries of the sequence of contacts
\* with keyword score > 0 that pass the quality-floor, executive and country
\* filters, by descending score with equal scores in load order; the scores
\* along the result are non-increasing and the result has at most top_k
\* entries (none when top_k is below 1).
C14_RankedPrefix ==
  SearchReturned =>
    LET r == ret.out.val
        k == ret.args.top_k.n
    IN /\ r.contacts = [i \in 1..Min(k, Len(Ranked)) |-> AsResult(Ranked[i])]
       /\ \A i \in 1..(Len(r.contacts) - 1) :
            r.contacts[i].relevanceScore.num >= r.contacts[i + 1].relevanceScore.num
       /\ Len(r.contacts) <= (IF k > 0 THEN k ELSE 0)
       /\ r.totalMatched = Len(r.contacts)

\* the contacts the store loads into, as a set
LoadedSet ==
  LET loaded == load_contacts_from_csv(store)
  IN IF loaded.ok THEN {loaded.val[i] : i \in 1..Len(loaded.val)} ELSE {}

\* C15: every returned result has a score that counts each extracted
\* keyword at most once, so 1 <= score <= number of extracted keywords, and
\* relevanceScore = score / (number of extracted keywords) lies in [0, 1].
C15_RelevanceInUnitInterval ==
  SearchReturned =>
    LET r == ret.out.val
        kws == r.extractedKeywords
    IN \A i \in 1..Len(r.contacts) :
         LET rel == r.contacts[i].relevanceScore
         IN /\ Len(kws) >= 1
            /\ rel.den = Len(kws)
            /\ 1 <= rel.num
            /\ rel.num <= Len(kws)
            /\ \E c \in LoadedSet :
                 /\ Minimal(c) = [f \in DOMAIN Minimal(c) |-> r.contacts[i][f]]
                 /\ rel.num = Cardinality({j \in 1..Len(kws) : Contains(TextOf(c), kws[j])})

C15_Witness ==
  /\ SearchReturned
  /\ store.rows = <<RowA, RowTwice>>
  /\ ret.args.query = PyStr(s_q1)
  /\ Len(ret.out.val.extractedKeywords) = 2
  /\ Len(ret.out.val.contacts) = 2
  /\ ret.out.val.contacts[1].id = PyStr(s_id3)
  /\ ret.out.val.contacts[1].relevanceScore = [num |-> 2, den |-> 2]
  /\ ret.out.val.contacts[2].relevanceScore = [num |-> 1, den |-> 2]

\* C16: vector_search_contacts never fails because a contact lacks data: on
\* every dataset that loads, also one whose contacts have no Title, Company
\* Name or Industry, the search completes without raising.
C16_SearchNeverFails ==
  (SearchCalled /\ load_contacts_from_csv(store).ok) => ret.out.ok

\* the query contains none of the vocabulary terms
NoVocabularyTerm(query) ==
  \A i \in 1..Len(terms) : ~Contains(Lower(query.s), terms[i])

\* C17: a query that contains none of the vocabulary terms returns
\* extractedKeywords = [] and an empty contacts list (totalMatched 0) for
\* every dataset, without error.
C17_NoKeywordQueryIsEmpty ==
  (SearchCalled /\ NoVocabularyTerm(ret.args.query)) =>
    /\ ret.out.ok
    /\ ret.out.val.extractedKeywords = <<>>
    /\ ret.out.val.contacts = <<>>
    /\ ret.out.val.totalMatched = 0

(***************************************************************************)
(* Clauses of an unknown operator                                          *)
(***************************************************************************)
KnownOperators == {PyStr(s_contains), PyStr(s_equals), PyStr(s_gte)}

HasUnknownOperator(clause) == Get(clause, "operator") \notin KnownOperators

\* clauses of an unknown operator: an upper-case GTE, no operator
UnknownClauses ==
  {Clause("qualityScore", <<"G","T","E">>, PyInt(95)),
   [field |-> "country", value |-> PyStr(s_US)]}

RemoveAt(seq, i) == SubSeq(seq, 1, i - 1) \o SubSeq(seq, i + 1, Len(seq))

InsertAt(seq, p, x) == SubSeq(seq, 1, p) \o <<x>> \o SubSeq(seq, p + 1, Len(seq))

\* the clause list of a call, [] when where_clauses is None
ClausesOf(a) == IF a.where_clauses = PyNone THEN <<>> ELSE a.where_clauses.l

\* C18: a clause whose operator is not contains, equals or gte has no
\* effect: the call gives what it gives without the clause (contacts, total,
\* returned, and no error the call without the clause does not raise), at
\* whatever position of the clause list the clause is.
C18_UnknownOperatorNoEffect ==
  ret.fn = "query_contacts_tool" =>
    LET w == ClausesOf(ret.args)
    IN /\ \A i \in 1..Len(w) :
            HasUnknownOperator(w[i]) =>
              ret.out = query_contacts_tool(store,
                          [ret.args EXCEPT !.where_clauses = PyList(RemoveAt(w, i))])
       /\ \A p \in 0..Len(w) : \A u \in UnknownClauses :
            query_contacts_tool(store,
              [ret.args EXCEPT !.where_clauses = PyList(InsertAt(w, p, u))]) = ret.out

C18_Witness ==
  /\ QueryReturned
  /\ store.rows = <<RowA, RowB>>
  /\ ret.args.where_clauses =
       PyList(<<Clause("title", s_like, PyStr(s_ceo)), Clause("qualityScore", s_gte, PyInt(70))>>)
  /\ ret.args.is_executive = PyNone
  /\ ret.args.limit = PyInt(50)
  /\ ret.out.val.total = 1
  /\ ret.out.val.contacts = <<Minimal(transform_apollo_to_contact(RowA).val)>>

(***************************************************************************)
(* query_contacts called with generic clauses                              *)
(***************************************************************************)
MaxWhereRows == 2

\* a row of an export that has no Country column
RowNoCountry ==
  With(BaseRecord, ("Apollo Contact Id" :> PyStr(s_id4)) @@ ("Country" :> Absent))

WhereCatalogue == {RowA, RowB, RowNoCountry}

WhereStores ==
  {MissingStore} \cup
  {[exists |-> TRUE, rows |-> q] : q \in SeqsUpTo(WhereCatalogue, MaxWhereRows)}

\* clauses of unknown operators, gte on a number every contact has, on a
\* name that is no field of a contact, and on a field that is None when the
\* export has no such column
WhereClauses ==
  {Clause("title", s_like, PyStr(s_ceo)),
   [field |-> "country", value |-> PyStr(s_US)],
   Clause("title", s_contains, PyStr(s_ceo)),
   Clause("qualityScore", s_gte, PyInt(70)),
   Clause("revenue", s_gte, PyInt(0)),
   Clause("revenue", s_gte, PyInt(1)),
   Clause("country", s_gte, PyInt(0))}

WhereArgs ==
  { [QueryDefaults EXCEPT !.where_clauses = w, !.is_executive = e, !.limit = l] :
      w \in {PyNone} \cup {PyList(q) : q \in SeqsUpTo(WhereClauses, 2)},
      e \in {PyNone, PyBool(TRUE)}, l \in {PyInt(1), PyInt(50)} }

InitWhere ==
  /\ record = BaseRecord
  /\ ret = NoRet
  /\ store \in WhereStores
  /\ SysIdle

QueryWhere ==
  \E a \in WhereArgs :
    /\ ret = NoRet
    /\ ret' = [fn |-> "query_contacts_tool", args |-> a, out |-> query_contacts_tool(store, a)]
    /\ UNCHANGED <<record, store, pc, args, contacts, result, calls, chatvars>>

NextWhere == QueryWhere

SpecWhere == InitWhere /\ [][NextWhere]_vars

\* a contact has no value for a field: the field is no key of it, or it is
\* None because the export has no such column
ValueAbsent(c, f) == f \notin DOMAIN c \/ c[f] = PyNone

\* the value of the field, 0 when it is absent
ValueOr0(c, f) == IF ValueAbsent(c, f) THEN PyInt(0) ELSE c[f]

\* the call in ret has one generic clause, a gte, and no typed filter
OneGteClause ==
  /\ ret.fn = "query_contacts_tool"
  /\ ret.args.is_executive = PyNone
  /\ Len(ClausesOf(ret.args)) = 1
  /\ Get(ClausesOf(ret.args)[1], "operator") = PyStr(s_gte)

\* C19: a clause {field, operator: gte, value} keeps exactly the contacts
\* whose field value is >= value, a contact whose field value is absent
\* counting as 0 (kept iff 0 >= value), and never fails on a contact with an
\* absent field value.
C19_GteAbsentIsZero ==
  LET loaded == load_contacts_from_csv(store)
      g == ClausesOf(ret.args)[1]
  IN (OneGteClause /\ loaded.ok
        /\ \A i \in 1..Len(loaded.val) : PyGe(ValueOr0(loaded.val[i], g.field), g.value).ok)
     => /\ ret.out.ok
        /\ ret.out.val.contacts =
             MinimalAll(SliceTo(SelectSeq(loaded.val,
                                  LAMBDA c : PyGe(ValueOr0(c, g.field), g.value).val),
                                ret.args.limit.n))

(***************************************************************************)
(* The chat route: get_agent_async under concurrent requests               *)
(***************************************************************************)
s_sse == <<"h","t","t","p","s",":","/","/","m","c","p">>

\* the agent create_prospector_agent_async returns to request r
Agent(r) == [t |-> "agent", by |-> r]

\* the tools load_mcp_tools returns
McpTools == PyList(<<"gmail">>)

InitChat ==
  /\ record = BaseRecord
  /\ ret = NoRet
  /\ store = MissingStore
  /\ ToolsIdle
  /\ ChatIdle
  /\ sse_url \in {PyNone, PyStr(s_sse)}

\* agent = await get_agent_async() of a request, up to its return or to the
\* first await that suspends.  A coroutine runs without interruption between
\* two suspensions; get_composio_tools suspends only when it opens a session,
\* that is when no tools are cached and COMPOSIO_MCP_SSE_URL is set.
GetAgentAsync(r, kind) ==
  /\ req[r].pc = Idle
  /\ IF agent_with_mcp # PyNone
     THEN /\ req' = [req EXCEPT ![r] = [pc |-> "has_agent", kind |-> kind,
                                        agent |-> agent_with_mcp]]
          /\ UNCHANGED <<agent_with_mcp, created>>
     ELSE /\ created' = created + 1
          /\ IF cached_tools = PyNone /\ Truthy(sse_url)
             THEN /\ req' = [req EXCEPT ![r] = [pc |-> "creating", kind |-> kind,
                                                agent |-> PyNone]]
                  /\ UNCHANGED agent_with_mcp
             ELSE /\ agent_with_mcp' = Agent(r)
                  /\ req' = [req EXCEPT ![r] = [pc |-> "has_agent", kind |-> kind,
                                                agent |-> Agent(r)]]
  /\ UNCHANGED <<record, ret, store, pc, args, contacts, result, calls, sse_url, cached_tools>>

\* POST /chat/
Chat(r) == GetAgentAsync(r, "chat")

\* POST /chat/stream
ChatStream(r) == GetAgentAsync(r, "stream")

\* the session of get_composio_tools ends, with the tools (which are then
\* cached) or with an exception (which is caught); create_deep_agent builds
\* the agent and get_agent_async assigns it to the global
CreateProspectorAgentAsync(r) ==
  /\ req[r].pc = "creating"
  /\ \E loaded \in BOOLEAN :
       cached_tools' = IF loaded THEN McpTools ELSE cached_tools
  /\ agent_with_mcp' = Agent(r)
  /\ req' = [req EXCEPT ![r].pc = "has_agent", ![r].agent = Agent(r)]
  /\ UNCHANGED <<record, ret, store, pc, args, contacts, result, calls, created, sse_url>>

\* the request invokes its agent and answers
Respond(r) ==
  /\ req[r].pc = "has_agent"
  /\ req' = [req EXCEPT ![r].pc = "done"]
  /\ UNCHANGED <<record, ret, store, pc, args, contacts, result, calls,
                 agent_with_mcp, created, sse_url, cached_tools>>

NextChat ==
  \/ \E r \in Requests : Chat(r)
  \/ \E r \in Requests : ChatStream(r)
  \/ \E r \in Requests : CreateProspectorAgentAsync(r)
  \/ \E r \in Requests : Respond(r)

SpecChat == InitChat /\ [][NextChat]_vars

\* C20: the chat agent is a singleton: under any interleaving of concurrent
\* chat and chat-stream requests create_prospector_agent_async is executed
\* at most once and every request uses the same agent instance.
C20_AgentSingleton ==
  /\ created <= 1
  /\ \A r1, r2 \in Requests :
       (req[r1].agent # PyNone /\ req[r2].agent # PyNone) => req[r1].agent = req[r2].agent

(***************************************************************************)
(* The Composio MCP tools cache: get_composio_tools, refresh_composio_tools*)
(***************************************************************************)
MaxToolCalls == 3

\* the tool lists load_mcp_tools can return; the server may publish no tool
ToolLists == {PyList(<<>>), McpTools, PyList(<<"gmail", "slack">>)}

\* what happens to a session a call opens: the tools are loaded and the
\* session closes; create_session or load_mcp_tools raises; or the tools are
\* loaded and leaving the async with block raises
Sessions ==
  [kind : {"loaded", "close_failed"}, tools : ToolLists]
    \cup {[kind |-> "failed", tools |-> PyNone]}

\* if _cached_tools: a test by truth value, under which an empty list that
\* was loaded is fetched again
CacheHitTruthy(cached) == Truthy(cached)

\* if _cached_tools is not None
CacheHit(cached) == cached # PyNone

\* one run of get_composio_tools on the cache `cached`, the environment
\* variable `url` and the fate `session` of the session it may open: the
\* cache it leaves, the list it returns, whether it opened a session, and
\* the branch it returned from
get_composio_tools(cached, url, session) ==
  IF CacheHit(cached)
  THEN [cache |-> cached, result |-> cached, opened |-> FALSE, outcome |-> "cached"]
  ELSE IF ~Truthy(url)
  THEN [cache |-> cached, result |-> PyList(<<>>), opened |-> FALSE, outcome |-> "no_url"]
  ELSE IF session.kind = "loaded"
  THEN [cache |-> session.tools, result |-> session.tools, opened |-> TRUE,
        outcome |-> "loaded"]
  ELSE IF session.kind = "close_failed"
  THEN [cache |-> session.tools, result |-> PyList(<<>>), opened |-> TRUE,
        outcome |-> "close_failed"]
  ELSE [cache |-> cached, result |-> PyList(<<>>), opened |-> TRUE, outcome |-> "failed"]

\* _cached_tools = None; return await get_composio_tools()
refresh_composio_tools(cached, url, session) == get_composio_tools(PyNone, url, session)

\* the process after import, with COMPOSIO_MCP_SSE_URL unset, empty or set
InitTools ==
  /\ record = BaseRecord
  /\ ret = NoRet
  /\ store = MissingStore
  /\ ToolsIdle
  /\ ChatIdle
  /\ sse_url \in {PyNone, PyStr(<<>>), PyStr(s_sse)}

\* a whole call, made after the call before it has returned; calls logs it
\* with the cache it found and the cache it left
ToolsCall(op, r) ==
  /\ Len(calls) < MaxToolCalls
  /\ cached_tools' = r.cache
  /\ calls' = Append(calls,
                [op |-> op, before |-> cached_tools, after |-> r.cache,
                 result |-> r.result, opened |-> r.opened, outcome |-> r.outcome])
  /\ UNCHANGED <<record, ret, store, pc, args, contacts, result,
                 agent_with_mcp, req, created, sse_url>>

GetComposioTools ==
  \E session \in Sessions :
    ToolsCall("get_composio_tools", get_composio_tools(cached_tools, sse_url, session))

RefreshComposioTools ==
  \E session \in Sessions :
    ToolsCall("refresh_composio_tools",
              refresh_composio_tools(cached_tools, sse_url, session))

NextTools ==
  \/ GetComposioTools
  \/ RefreshComposioTools

SpecTools == InitTools /\ [][NextTools]_vars

\* the calls between call i and call j, j included, hold no refresh
NoRefreshWithin(i, j) ==
  \A k \in (i + 1)..j : calls[k].op # "refresh_composio_tools"

====
